---------------------------- MODULE Spec2Model ----------------------------
(***************************************************************************)
(* ScholarMate: the retrying, rate-limited, seven-stage generation         *)
(* pipeline (services/geminiService.ts) and the application state that     *)
(* drives it (App.tsx).                                                    *)
(*                                                                         *)
(* Texts (response texts, error messages, prompts' embedded values) are    *)
(* sequences of one-character strings, so that the regular expressions,    *)
(* String.includes, String.trim and JSON.parse of the source are computed  *)
(* character by character.  The characters of the modelled texts are       *)
(* letters, digits, space, newline, and the punctuation                    *)
(*   backtick # . ( ) _ [ ] { } , : and the double quote                   *)
(* (no backslash, sign or decimal point: JSON escapes, negative and        *)
(* fractional numbers are outside the modelled texts).  A TLA+ string      *)
(* literal cannot hold a backtick, so that one character is written BT.    *)
(***************************************************************************)
EXTENDS Integers, Sequences, FiniteSets, TLC

(***************************************************************************)
(* Characters and strings                                                  *)
(***************************************************************************)

UpperCase == <<"A","B","C","D","E","F","G","H","I","J","K","L","M",
               "N","O","P","Q","R","S","T","U","V","W","X","Y","Z">>

LowerCase == <<"a","b","c","d","e","f","g","h","i","j","k","l","m",
               "n","o","p","q","r","s","t","u","v","w","x","y","z">>

Digits == <<"0","1","2","3","4","5","6","7","8","9">>

\* String.prototype.toLowerCase on one character (the /i flag of a regex).
ToLower(c) ==
  IF \E k \in 1..26 : UpperCase[k] = c
  THEN LowerCase[CHOOSE k \in 1..26 : UpperCase[k] = c]
  ELSE c

\* The regex class \s and the characters String.prototype.trim removes.
IsSpace(c) == c \in {" ", "\n", "\t", "\r"}

IsDigit(c) == \E k \in 1..10 : Digits[k] = c

DigitVal(c) == (CHOOSE k \in 1..10 : Digits[k] = c) - 1

\* s.slice(n): s without its first n characters.
Drop(s, n) == SubSeq(s, n + 1, Len(s))

\* s.startsWith(p)
StartsWith(s, p) == Len(s) >= Len(p) /\ SubSeq(s, 1, Len(p)) = p

\* s.toLowerCase().startsWith(p), p in lower case: a prefix match under /i.
StartsWithNoCase(s, p) ==
  /\ Len(s) >= Len(p)
  /\ \A k \in 1..Len(p) : ToLower(s[k]) = p[k]

\* String.prototype.includes
Includes(s, p) ==
  \E k \in 0..(Len(s) - Len(p)) : SubSeq(s, k + 1, k + Len(p)) = p

\* The number of leading characters of s matched by \s* (greedy).
LeadingSpaces(s) ==
  IF \A k \in 1..Len(s) : IsSpace(s[k]) THEN Len(s)
  ELSE (CHOOSE k \in 1..Len(s) :
          ~IsSpace(s[k]) /\ \A j \in 1..(k - 1) : IsSpace(s[j])) - 1

\* The number of trailing characters of s that are white space.
TrailingSpaces(s) ==
  IF \A k \in 1..Len(s) : IsSpace(s[k]) THEN Len(s)
  ELSE Len(s) - (CHOOSE k \in 1..Len(s) :
                   ~IsSpace(s[k]) /\ \A j \in (k + 1)..Len(s) : IsSpace(s[j]))

\* String.prototype.trim
Trim(s) == SubSeq(s, LeadingSpaces(s) + 1, Len(s) - TrailingSpaces(s))

\* The backtick character, U+0060.
BT == "BACKTICK"

Fence == <<BT, BT, BT>>

\* text.replace(/^```<tag>\s*/i, ''), tag in lower case (tag <<>> for /^```\s*/):
\* a leading fence with that tag is removed together with the white space after it.
StripLeadingFence(text, tag) ==
  IF StartsWithNoCase(text, Fence \o tag)
  THEN LET rest == Drop(text, 3 + Len(tag))
       IN  Drop(rest, LeadingSpaces(rest))
  ELSE text

\* text.replace(/```\s*$/, ''): a fence followed only by white space up to the end
\* of the text is removed together with that white space.
StripTrailingFence(text) ==
  LET n == Len(text) - TrailingSpaces(text)
  IN  IF n >= 3 /\ SubSeq(text, n - 2, n) = Fence
      THEN SubSeq(text, 1, n - 3)
      ELSE text

\* cleanCode as it would be if one leading fence only were removed: the
\* python-tagged one if the text starts with one, otherwise a generic one.
cleanCodeOneLeadingFence(text) ==
  Trim(StripTrailingFence(
         IF StartsWithNoCase(text, Fence \o <<"p","y","t","h","o","n">>)
         THEN StripLeadingFence(text, <<"p","y","t","h","o","n">>)
         ELSE StripLeadingFence(text, <<>>)))

\* cleanCode: both leading replacements are applied, one after the other.
cleanCode(text) ==
  Trim(StripTrailingFence(
         StripLeadingFence(
           StripLeadingFence(text, <<"p","y","t","h","o","n">>), <<>>)))

cleanJson(text) ==
  Trim(StripTrailingFence(
         StripLeadingFence(
           StripLeadingFence(text, <<"j","s","o","n">>), <<>>)))

(***************************************************************************)
(* JSON.parse                                                              *)
(*                                                                         *)
(* A parsed value is a record [t, v]: t the kind of the value ("array",    *)
(* "object", "string", "number", "literal") and v its content: the         *)
(* sequence of the elements, the function from the keys to the members'    *)
(* values (a repeated key keeps its last value), the characters, the       *)
(* numeral of the number (a double), or the lower-case name of true, false *)
(* or null.  A result of a parsing step is [ok, val, rest]: rest is the    *)
(* text after the value.                                                   *)
(***************************************************************************)

Fail == [ok |-> FALSE]

\* The white space of the JSON grammar.
IsJsonSpace(c) == c \in {" ", "\n", "\t", "\r"}

SkipWs(s) ==
  IF \A k \in 1..Len(s) : IsJsonSpace(s[k]) THEN <<>>
  ELSE Drop(s, (CHOOSE k \in 1..Len(s) :
                  ~IsJsonSpace(s[k]) /\ \A j \in 1..(k - 1) : IsJsonSpace(s[j])) - 1)

\* The value of the decimal digits ds: for the few digits of an exponent.
RECURSIVE DigitsValue(_)
DigitsValue(ds) ==
  IF ds = <<>> THEN 0
  ELSE 10 * DigitsValue(SubSeq(ds, 1, Len(ds) - 1)) + DigitVal(ds[Len(ds)])

\* The number of leading digits of s.
LeadingDigits(s) ==
  IF \A k \in 1..Len(s) : IsDigit(s[k]) THEN Len(s)
  ELSE (CHOOSE k \in 1..Len(s) :
          ~IsDigit(s[k]) /\ \A j \in 1..(k - 1) : IsDigit(s[j])) - 1

\* A string: a double quote, characters other than the double quote and the
\* control characters, a double quote.
ParseString(s) ==
  IF Len(s) < 2 \/ s[1] # "\"" \/ ~(\E k \in 2..Len(s) : s[k] = "\"") THEN Fail
  ELSE LET close == CHOOSE k \in 2..Len(s) :
                      s[k] = "\"" /\ \A j \in 2..(k - 1) : s[j] # "\""
           body  == SubSeq(s, 2, close - 1)
       IN  IF \E k \in 1..Len(body) : body[k] \in {"\n", "\t", "\r"} THEN Fail
           ELSE [ok |-> TRUE, val |-> [t |-> "string", v |-> body],
                 rest |-> Drop(s, close)]

(***************************************************************************)
(* The Number value of a numeric literal.  A Number is an IEEE 754 double: *)
(* the literal's exact value rounded to 53 significant bits, ties to the   *)
(* even significand, and Infinity from 2^1024 - 2^970 on.  The literals of *)
(* the alphabet are natural numbers, so the doubles are natural numbers or *)
(* Infinity, and a double is held as a numeral: the decimal digits of its  *)
(* exact value, most significant first, without leading zeros.  Numerals   *)
(* are as long as 309 digits, so the arithmetic is done on the digits.     *)
(***************************************************************************)

Infinity == <<"I","n","f","i","n","i","t","y">>

\* The longest numeral of a finite double: 2^1024 has 309 digits.
MaxNumeral == 309

\* The numeral d without its leading zeros.
StripZeros(d) ==
  IF \A k \in 1..Len(d) : d[k] = "0" THEN <<"0">>
  ELSE Drop(d, (CHOOSE k \in 1..Len(d) :
                  d[k] # "0" /\ \A j \in 1..(k - 1) : d[j] = "0") - 1)

\* a < b, for numerals.
NumLess(a, b) ==
  \/ Len(a) < Len(b)
  \/ /\ Len(a) = Len(b)
     /\ \E k \in 1..Len(a) :
          /\ DigitVal(a[k]) < DigitVal(b[k])
          /\ \A j \in 1..(k - 1) : a[j] = b[j]

Zeros(n) == [i \in 1..n |-> "0"]

Two53 == <<"9","0","0","7","1","9","9","2","5","4","7","4","0","9","9","2">>

\* a shifted right by one bit, where a is [d, s, guard, sticky]: d the
\* numeral, s the count of the bits shifted out, guard the last of them and
\* sticky whether one before it was set.  d div 2 by long division: an odd
\* digit carries ten into the next.
Halve(a) ==
  [d |-> StripZeros([i \in 1..Len(a.d) |->
           Digits[((IF i > 1 /\ DigitVal(a.d[i - 1]) % 2 = 1 THEN 10 ELSE 0)
                     + DigitVal(a.d[i])) \div 2 + 1]]),
   s |-> a.s + 1,
   guard |-> DigitVal(a.d[Len(a.d)]) % 2 = 1,
   sticky |-> a.sticky \/ a.guard]

\* a shifted right by k bits.  The shift is done in two halves, the first
\* evaluated before the second begins, to keep the recursion shallow.
RECURSIVE ShiftRightBy(_, _)
ShiftRightBy(a, k) ==
  IF k = 0 THEN a
  ELSE IF k = 1 THEN Halve(a)
  ELSE LET h == ShiftRightBy(a, k \div 2)
       IN  IF h.d = <<"0">> THEN h ELSE ShiftRightBy(h, k - k \div 2)

\* a shifted right bit by bit until its numeral is below 2^53.
RECURSIVE ShiftRight(_)
ShiftRight(a) ==
  IF NumLess(a.d, Two53) THEN a ELSE ShiftRight(ShiftRightBy(a, 1))

\* 2 * d: a digit from 5 on carries one into the digit before it.
Double(d) ==
  StripZeros([i \in 1..(Len(d) + 1) |->
    Digits[((IF i > 1 THEN 2 * DigitVal(d[i - 1]) ELSE 0) % 10)
             + (IF i <= Len(d) /\ DigitVal(d[i]) >= 5 THEN 1 ELSE 0) + 1]])

\* d * 2^s
RECURSIVE ShiftLeft(_, _)
ShiftLeft(d, s) ==
  IF s = 0 THEN d
  ELSE IF s = 1 THEN Double(d)
  ELSE LET h == ShiftLeft(d, s \div 2)
       IN  IF h = <<"0">> THEN h ELSE ShiftLeft(h, s - s \div 2)

\* d + 1
Succ(d) ==
  IF \A k \in 1..Len(d) : d[k] = "9"
  THEN <<"1">> \o Zeros(Len(d))
  ELSE LET k == CHOOSE j \in 1..Len(d) :
                  d[j] # "9" /\ \A l \in (j + 1)..Len(d) : d[l] = "9"
       IN  [i \in 1..Len(d) |->
              IF i < k THEN d[i]
              ELSE IF i = k THEN Digits[DigitVal(d[k]) + 2] ELSE "0"]

\* The double with the 53 bits m and the exponent s, m * 2^s: Infinity when
\* it has more than 1024 bits.
Pack(m, s) ==
  IF s + (IF m = Two53 THEN 54 ELSE 53) > 1024 THEN Infinity ELSE ShiftLeft(m, s)

\* The double nearest to d, given a: d cut to its leading 53 bits, with the
\* bits cut off.  Nothing is cut off below 2^53, where every natural number
\* is a double.  Else the 53 bits go up by one when the first bit cut off is
\* set and either a bit after it is set or the 53 are odd.
Round(d, a) ==
  IF a.s = 0 THEN d
  ELSE Pack(IF a.guard /\ (a.sticky \/ DigitVal(a.d[Len(a.d)]) % 2 = 1)
            THEN Succ(a.d) ELSE a.d, a.s)

\* A number of bits that the numeral d of n digits has beyond 54 at least, d
\* being at least 10^(n-1): 3.321928 is below the base-2 logarithm of 10.
BitsBeyond54(d) ==
  IF Len(d) > 17 THEN ((Len(d) - 1) * 3321928) \div 1000000 - 53 ELSE 0

\* The double nearest to the numeral d of at most MaxNumeral digits.
ToDouble(d) ==
  Round(d, ShiftRight(ShiftRightBy([d |-> d, s |-> 0, guard |-> FALSE,
                                    sticky |-> FALSE], BitsBeyond54(d))))

\* The Number value of the literal with the digits int and the exponent exp
\* (digits, none without an exponent part): int * 10^exp as a double.  A
\* literal of more than MaxNumeral digits is at least 10^309, above every
\* finite double.
NumberValue(int, exp) ==
  IF int = <<"0">> THEN int
  ELSE IF Len(StripZeros(exp)) > 3
          \/ Len(int) + DigitsValue(StripZeros(exp)) > MaxNumeral THEN Infinity
  ELSE ToDouble(int \o Zeros(DigitsValue(StripZeros(exp))))

\* A number: 0 or a digit 1-9 and digits, then optionally e or E and digits.
ParseNumber(s) ==
  LET n    == IF s[1] = "0" THEN 1 ELSE LeadingDigits(s)
      r    == Drop(s, n)
      ne   == IF r # <<>> /\ r[1] \in {"e", "E"} THEN LeadingDigits(Drop(r, 1)) ELSE 0
  IN  IF n = 0 \/ (r # <<>> /\ r[1] \in {"e", "E"} /\ ne = 0) THEN Fail
      ELSE [ok |-> TRUE,
            val |-> [t |-> "number",
                     v |-> NumberValue(SubSeq(s, 1, n), SubSeq(r, 2, ne + 1))],
            rest |-> IF ne = 0 THEN r ELSE Drop(r, ne + 1)]

ParseLiteral(s) ==
  IF StartsWith(s, <<"t","r","u","e">>)
  THEN [ok |-> TRUE, val |-> [t |-> "literal", v |-> "true"], rest |-> Drop(s, 4)]
  ELSE IF StartsWith(s, <<"f","a","l","s","e">>)
  THEN [ok |-> TRUE, val |-> [t |-> "literal", v |-> "false"], rest |-> Drop(s, 5)]
  ELSE IF StartsWith(s, <<"n","u","l","l">>)
  THEN [ok |-> TRUE, val |-> [t |-> "literal", v |-> "null"], rest |-> Drop(s, 4)]
  ELSE Fail

RECURSIVE ParseValue(_), ParseElements(_, _), ParseMembers(_, _)

\* The elements of an array after its [ or after a comma; acc holds the
\* elements parsed so far.
ParseElements(s, acc) ==
  LET e == ParseValue(s)
  IN  IF ~e.ok THEN Fail
      ELSE LET r == SkipWs(e.rest)
           IN  IF r = <<>> THEN Fail
               ELSE IF r[1] = "," THEN ParseElements(Drop(r, 1), Append(acc, e.val))
               ELSE IF r[1] = "]"
               THEN [ok |-> TRUE, val |-> [t |-> "array", v |-> Append(acc, e.val)],
                     rest |-> Drop(r, 1)]
               ELSE Fail

\* The members of an object after its { or after a comma; acc maps the keys
\* parsed so far to their values.
ParseMembers(s, acc) ==
  LET k == ParseString(SkipWs(s))
  IN  IF ~k.ok THEN Fail
      ELSE LET c == SkipWs(k.rest)
           IN  IF c = <<>> \/ c[1] # ":" THEN Fail
               ELSE LET m == ParseValue(Drop(c, 1))
                    IN  IF ~m.ok THEN Fail
                        ELSE LET r   == SkipWs(m.rest)
                                 obj == (k.val.v :> m.val) @@ acc
                             IN  IF r = <<>> THEN Fail
                                 ELSE IF r[1] = "," THEN ParseMembers(Drop(r, 1), obj)
                                 ELSE IF r[1] = "}"
                                 THEN [ok |-> TRUE, val |-> [t |-> "object", v |-> obj],
                                       rest |-> Drop(r, 1)]
                                 ELSE Fail

ParseValue(s) ==
  LET x == SkipWs(s)
  IN  IF x = <<>> THEN Fail
      ELSE IF x[1] = "["
      THEN LET r == SkipWs(Drop(x, 1))
           IN  IF r # <<>> /\ r[1] = "]"
               THEN [ok |-> TRUE, val |-> [t |-> "array", v |-> <<>>], rest |-> Drop(r, 1)]
               ELSE ParseElements(Drop(x, 1), <<>>)
      ELSE IF x[1] = "{"
      THEN LET r == SkipWs(Drop(x, 1))
           IN  IF r # <<>> /\ r[1] = "}"
               THEN [ok |-> TRUE, val |-> [t |-> "object", v |-> <<>>], rest |-> Drop(r, 1)]
               ELSE ParseMembers(Drop(x, 1), <<>>)
      ELSE IF x[1] = "\"" THEN ParseString(x)
      ELSE IF IsDigit(x[1]) THEN ParseNumber(x)
      ELSE ParseLiteral(x)

\* JSON.parse(text): [ok |-> TRUE, val |-> the value], or [ok |-> FALSE] where
\* JSON.parse throws a SyntaxError.
JSONParse(text) ==
  LET r == ParseValue(text)
  IN  IF r.ok /\ SkipWs(r.rest) = <<>> THEN [ok |-> TRUE, val |-> r.val] ELSE Fail

(***************************************************************************)
(* Constants of the program and bounds of the model                        *)
(***************************************************************************)

\* generateWithRetry's default parameters and the inter-stage buffer.
DefaultRetries == 10

DefaultInitialDelay == 10000

InterStageDelay == 12000

\* The "too many requests" status.
TooManyRequests == 429

\* Bounds: the attempt ceilings tried on generateWithRetry called directly, the
\* analyses started in one session of the application, the file reads pending
\* at once.
MaxRetries == 4

MaxRuns == 2

MaxPendingReads == 2

InitialDelays == {1, 1000, DefaultInitialDelay}

MODEL_NAME == "gemini-3-pro-preview"

(***************************************************************************)
(* Errors a remote call can fail with.  A field the error object does not  *)
(* have is a field the record does not have.                               *)
(***************************************************************************)

S_429 == <<"4","2","9">>

S_RESOURCE_EXHAUSTED ==
  <<"R","E","S","O","U","R","C","E","_","E","X","H","A","U","S","T","E","D">>

\* Errors every check of the classification but one rejects, or all accept.
RateLimitErrors ==
  { [status |-> 429, message |-> <<"q","u","o","t","a">>],
    [code |-> 429],
    [status |-> 500, message |-> <<"g","o","t"," ">> \o S_429 \o <<"!">>],
    [message |-> S_RESOURCE_EXHAUSTED \o <<":"," ","s","l","o","w">>],
    [status |-> 429, code |-> 429, message |-> S_429 \o <<" ">> \o S_RESOURCE_EXHAUSTED] }

\* Errors no check of the classification accepts.
OtherErrors ==
  { [status |-> 500, message |-> <<"b","o","o","m">>],
    [status |-> 400, code |-> 400, message |-> <<"4","2","8"," ","9">>],
    [code |-> 403],
    [status |-> 503, message |-> <<>>],
    [status |-> 4290, code |-> 42,
     message |-> <<"r","e","s","o","u","r","c","e","_","e","x","h","a","u","s","t",
                   "e","d"," ","4"," ","2","9">>] }

\* The errors the calls of a whole pipeline are failed with.
PipelineErrors ==
  { [status |-> 429, message |-> <<"q","u","o","t","a">>],
    [status |-> 500, message |-> <<"b","o","o","m">>] }

\* new Error("Failed to generate content after retries. The API quota may be exhausted.")
QuotaError ==
  [message |->
     <<"F","a","i","l","e","d"," ","t","o"," ","g","e","n","e","r","a","t","e"," ",
       "c","o","n","t","e","n","t"," ","a","f","t","e","r"," ","r","e","t","r","i",
       "e","s","."," ","T","h","e"," ","A","P","I"," ","q","u","o","t","a"," ","m",
       "a","y"," ","b","e"," ","e","x","h","a","u","s","t","e","d",".">>]

\* isRateLimit as it would be if only the numeric fields were looked at.
isRateLimitStatusOnly(error) ==
  \/ ("status" \in DOMAIN error /\ error.status = TooManyRequests)
  \/ ("code" \in DOMAIN error /\ error.code = TooManyRequests)

\* isRateLimit of generateWithRetry's catch block.
isRateLimit(error) ==
  \/ ("status" \in DOMAIN error /\ error.status = TooManyRequests)
  \/ ("code" \in DOMAIN error /\ error.code = TooManyRequests)
  \/ ("message" \in DOMAIN error /\ error.message # <<>>
        /\ Includes(error.message, S_429))
  \/ ("message" \in DOMAIN error /\ error.message # <<>>
        /\ Includes(error.message, S_RESOURCE_EXHAUSTED))

(***************************************************************************)
(* Delays in milliseconds are fractions [num, den] in lowest terms, den a  *)
(* power of two: currentDelay *= 1.5 is exact on them (as it is on the     *)
(* doubles of the program, for the delays reached here).                   *)
(***************************************************************************)

Ms(n) == [num |-> n, den |-> 1]

\* Backoff as it would be if the delay were doubled.
BackoffDoubling(d) == [num |-> d.num * 2, den |-> d.den]

\* currentDelay *= 1.5
Backoff(d) ==
  IF d.num % 2 = 0 THEN [num |-> (d.num \div 2) * 3, den |-> d.den]
  ELSE [num |-> d.num * 3, den |-> d.den * 2]

(***************************************************************************)
(* The seven stages of generateAnalysis                                    *)
(***************************************************************************)

Stages == 1..7

\* The field of the bundle stage n produces.
Field(n) ==
  CASE n = 1 -> "summary"
    [] n = 2 -> "critique"
    [] n = 3 -> "experimentPlan"
    [] n = 4 -> "pythonCode"
    [] n = 5 -> "slides"
    [] n = 6 -> "experimentInterpretation"
    [] n = 7 -> "validationReport"

\* The fixed text stage n takes for a response without usable text.
Fallback(n) ==
  CASE n = 1 -> <<"F","a","i","l","e","d"," ","t","o"," ","g","e","n","e","r","a","t",
                  "e"," ","s","u","m","m","a","r","y",".">>
    [] n = 2 -> <<"F","a","i","l","e","d"," ","t","o"," ","g","e","n","e","r","a","t",
                  "e"," ","c","r","i","t","i","q","u","e",".">>
    [] n = 3 -> <<"F","a","i","l","e","d"," ","t","o"," ","g","e","n","e","r","a","t",
                  "e"," ","e","x","p","e","r","i","m","e","n","t"," ","p","l","a","n",".">>
    [] n = 4 -> <<"#"," ","F","a","i","l","e","d"," ","t","o"," ","g","e","n","e","r",
                  "a","t","e"," ","c","o","d","e",".">>
    [] n = 5 -> <<"[","]">>
    [] n = 6 -> <<"F","a","i","l","e","d"," ","t","o"," ","g","e","n","e","r","a","t",
                  "e"," ","i","n","t","e","r","p","r","e","t","a","t","i","o","n",".">>
    [] n = 7 -> <<"V","a","l","i","d","a","t","i","o","n"," ","c","h","e","c","k"," ",
                  "f","a","i","l","e","d",".">>

\* [{ title: "Error", bullets: ["Failed to generate slides data."] }]
ErrorSlides ==
  [t |-> "array",
   v |-> << [t |-> "object",
             v |-> (<<"t","i","t","l","e">> :>
                      [t |-> "string", v |-> <<"E","r","r","o","r">>])
                   @@
                   (<<"b","u","l","l","e","t","s">> :>
                      [t |-> "array",
                       v |-> << [t |-> "string",
                                 v |-> <<"F","a","i","l","e","d"," ","t","o"," ","g",
                                         "e","n","e","r","a","t","e"," ","s","l","i",
                                         "d","e","s"," ","d","a","t","a",".">>] >>])] >>]

\* TextOr as it would be with ?? for ||: an empty text is kept.
TextOrNullish(resp, fallback) ==
  IF "text" \in DOMAIN resp THEN resp.text ELSE fallback

\* resp.text || fallback: the text of a response, or the fallback when the
\* response has no text field or an empty one.
TextOr(resp, fallback) ==
  IF "text" \in DOMAIN resp /\ resp.text # <<>> THEN resp.text ELSE fallback

\* StageOutput as it would be if the slides text were parsed as it came,
\* without cleanJson.
StageOutputUncleaned(n, resp) ==
  CASE n = 4 -> cleanCode(TextOr(resp, Fallback(4)))
    [] n = 5 -> LET parsed == JSONParse(TextOr(resp, Fallback(5)))
                IN  IF parsed.ok THEN parsed.val ELSE ErrorSlides
    [] OTHER -> TextOr(resp, Fallback(n))

\* StageOutput as it would be if the catch of the slides parsing kept the
\* initial empty list.
StageOutputEmptyOnFailure(n, resp) ==
  CASE n = 4 -> cleanCode(TextOr(resp, Fallback(4)))
    [] n = 5 -> LET parsed == JSONParse(cleanJson(TextOr(resp, Fallback(5))))
                IN  IF parsed.ok THEN parsed.val ELSE [t |-> "array", v |-> <<>>]
    [] OTHER -> TextOr(resp, Fallback(n))

\* The value generateAnalysis stores for stage n from the response of its call.
StageOutput(n, resp) ==
  CASE n = 4 -> cleanCode(TextOr(resp, Fallback(4)))
    [] n = 5 -> LET parsed == JSONParse(cleanJson(TextOr(resp, Fallback(5))))
                IN  IF parsed.ok THEN parsed.val ELSE ErrorSlides
    [] OTHER -> TextOr(resp, Fallback(n))

\* { inlineData: { mimeType, data: fileBase64 } }
FilePart(fileBase64, mimeType) ==
  [inlineData |-> [mimeType |-> mimeType, data |-> fileBase64]]

\* A template literal: the fixed instruction text, named, and the values
\* interpolated into it, in their order.
TextPart(template, embedded) ==
  [text |-> [template |-> template, embedded |-> embedded]]

\* StageParams as it would be if stage 3 did not attach the document.
StageParamsPlanWithoutFile(n, out, filePart) ==
  CASE n = 1 ->
         [model |-> MODEL_NAME, config |-> [systemInstruction |-> "systemInstruction"],
          contents |-> [parts |-> <<filePart, TextPart("summaryPrompt", <<>>)>>]]
    [] n = 2 ->
         [model |-> MODEL_NAME, config |-> [systemInstruction |-> "systemInstruction"],
          contents |-> [parts |-> <<filePart, TextPart("critiquePrompt", <<>>)>>]]
    [] n = 3 ->
         [model |-> MODEL_NAME, config |-> [systemInstruction |-> "systemInstruction"],
          contents |-> [parts |-> <<TextPart("experimentPrompt", <<>>)>>]]
    [] n = 4 ->
         [model |-> MODEL_NAME,
          contents |-> [parts |-> <<TextPart("codePrompt", <<out.experimentPlan>>)>>]]
    [] n = 5 ->
         [model |-> MODEL_NAME,
          contents |-> [parts |-> <<filePart,
                                    TextPart("slidesPrompt",
                                             <<out.summary, out.experimentPlan>>)>>],
          config |-> [responseMimeType |-> "application/json",
                      responseSchema |-> "slidesSchema"]]
    [] n = 6 ->
         [model |-> MODEL_NAME,
          contents |-> [parts |-> <<TextPart("interpretationPrompt",
                                             <<out.experimentPlan>>)>>]]
    [] n = 7 ->
         [model |-> MODEL_NAME,
          contents |-> [parts |-> <<filePart,
                                    TextPart("validationPrompt",
                                             <<out.summary, out.critique,
                                               out.experimentPlan>>)>>]]

\* The params generateAnalysis passes to generateWithRetry at stage n; out holds
\* the outputs of the stages before n.
StageParams(n, out, filePart) ==
  CASE n = 1 ->
         [model |-> MODEL_NAME, config |-> [systemInstruction |-> "systemInstruction"],
          contents |-> [parts |-> <<filePart, TextPart("summaryPrompt", <<>>)>>]]
    [] n = 2 ->
         [model |-> MODEL_NAME, config |-> [systemInstruction |-> "systemInstruction"],
          contents |-> [parts |-> <<filePart, TextPart("critiquePrompt", <<>>)>>]]
    [] n = 3 ->
         [model |-> MODEL_NAME, config |-> [systemInstruction |-> "systemInstruction"],
          contents |-> [parts |-> <<filePart, TextPart("experimentPrompt", <<>>)>>]]
    [] n = 4 ->
         [model |-> MODEL_NAME,
          contents |-> [parts |-> <<TextPart("codePrompt", <<out.experimentPlan>>)>>]]
    [] n = 5 ->
         [model |-> MODEL_NAME,
          contents |-> [parts |-> <<filePart,
                                    TextPart("slidesPrompt",
                                             <<out.summary, out.experimentPlan>>)>>],
          config |-> [responseMimeType |-> "application/json",
                      responseSchema |-> "slidesSchema"]]
    [] n = 6 ->
         [model |-> MODEL_NAME,
          contents |-> [parts |-> <<TextPart("interpretationPrompt",
                                             <<out.experimentPlan>>)>>]]
    [] n = 7 ->
         [model |-> MODEL_NAME,
          contents |-> [parts |-> <<filePart,
                                    TextPart("validationPrompt",
                                             <<out.summary, out.critique,
                                               out.experimentPlan>>)>>]]

\* onProgress's argument at stage n: 'Step n/7: <label>'.
ProgressNotice(n) ==
  [step |-> n, of |-> 7,
   label |-> CASE n = 1 -> "Generating Deep Summary..."
               [] n = 2 -> "Generating Critical Review..."
               [] n = 3 -> "Designing Experiment..."
               [] n = 4 -> "Generating Python Code..."
               [] n = 5 -> "Generating Presentation Slides..."
               [] n = 6 -> "Generating Interpretation..."
               [] n = 7 -> "Validating Results..."]

(***************************************************************************)
(* State                                                                   *)
(*                                                                         *)
(* status .. error  the React state of App (null is written <<>>)          *)
(* reads            the FileReader reads handleFileUpload has started and  *)
(*                  whose onload has not run yet                           *)
(* runs             the activations of generateAnalysis (or, in the        *)
(*                  wrapper's own specification, of generateWithRetry),    *)
(*                  in the order they were started; each holds the locals  *)
(*                  of the activation and where it is suspended (pc),      *)
(*                  and what its callback, its timers and (when recording) *)
(*                  its mocked call were asked: progress, delays, waits,   *)
(*                  attempts, requests, trace                              *)
(* inflight         the calls of ai.models.generateContent that have been  *)
(*                  issued and have not settled, in the order of issue     *)
(* pyodide .. runError  the execution state of App; a run error is written *)
(*                  [text |-> s], which tells the empty string from null   *)
(* execs            the activations of runExperiment that are suspended at *)
(*                  an await, each with its locals (py, logs), the         *)
(*                  pythonCode of the result its closure holds and the     *)
(*                  functions of the runtime it has called; of an          *)
(*                  activation that is over the code stays, until the next *)
(*                  begins                                                 *)
(* created          the number of runtimes window.loadPyodide has created  *)
(***************************************************************************)
VARIABLES status, currentStep, progressMsg, file, result, error, reads,
          selected, runs, inflight,
          pyodide, runStatus, output, runError, execs, created

appVars == <<status, currentStep, progressMsg, file, result, error, reads,
             selected>>

runVars == <<pyodide, runStatus, output, runError, execs, created>>

vars == <<status, currentStep, progressMsg, file, result, error, reads,
          selected, runs, inflight,
          pyodide, runStatus, output, runError, execs, created>>

NoFile == <<>>

NoResult == <<>>

NoError == "null"

NoPyodide == <<>>

NoRunError == <<>>

\* The files a user can select: name, type and the base64 of the content.
SelectableFiles ==
  { [name |-> "a.pdf", type |-> "application/pdf", base64 |-> "QQ=="],
    [name |-> "b.pdf", type |-> "application/pdf", base64 |-> "Qg=="],
    [name |-> "notes.txt", type |-> "text/plain", base64 |-> "Tg=="] }

AnalysisSteps ==
  {"upload", "summary", "critique", "experiment", "code", "slides", "validation"}

\* The locals of an activation as generateAnalysis (or generateWithRetry) is
\* entered.  recording: the mocked call and timers of this activation keep
\* the trace of what was asked of them.
NewRun(caller, fn, filePart, recording) ==
  [caller |-> caller, fn |-> fn, pc |-> "entry", stage |-> 0,
   filePart |-> filePart, out |-> <<>>, resps |-> <<>>,
   requests |-> <<>>, progress |-> <<>>, delays |-> <<>>,
   params |-> <<>>, retries |-> 0, initialDelay |-> 0, i |-> 0,
   currentDelay |-> Ms(0), caught |-> <<>>, attempts |-> 0, waits |-> <<>>,
   recording |-> recording, trace |-> <<>>,
   ret |-> <<>>, thrown |-> <<>>]

Init ==
  /\ status = "IDLE"
  /\ currentStep = "upload"
  /\ progressMsg = <<>>
  /\ file = NoFile
  /\ result = NoResult
  /\ error = NoError
  /\ reads = <<>>
  /\ selected = NoFile
  /\ runs = <<>>
  /\ inflight = <<>>
  /\ pyodide = NoPyodide
  /\ runStatus = "IDLE"
  /\ output = <<>>
  /\ runError = NoRunError
  /\ execs = <<>>
  /\ created = 0

(***************************************************************************)
(* generateWithRetry                                                       *)
(***************************************************************************)

Record(run, event) ==
  IF run.recording THEN [run EXCEPT !.trace = Append(@, event)] ELSE run

\* Throw as it would be if a stage caught the error of its call and went on
\* with its fallback.
ThrowCaughtByStage(run, e) ==
  IF run.fn = "generateAnalysis" /\ run.stage < 7
  THEN [run EXCEPT !.pc = "delay",
                   !.out = (Field(run.stage) :> Fallback(run.stage)) @@ @,
                   !.delays = Append(@, Ms(InterStageDelay))]
  ELSE [run EXCEPT !.pc = "failed", !.thrown = e]

\* An exception leaves the activation: generateWithRetry throws, and
\* generateAnalysis, which catches nothing, rejects.
Throw(run, e) == [run EXCEPT !.pc = "failed", !.thrown = e]

\* The head of the for loop: with attempts left the call is issued and
\* awaited, without any the terminal error is thrown.
LoopHead(run) ==
  IF run.i < run.retries
  THEN Record([run EXCEPT !.pc = "calling", !.attempts = @ + 1],
              [ev |-> "call", params |-> run.params])
  ELSE Throw(run, QuotaError)

\* generateWithRetry(params, retries, initialDelay) up to its first await.
EnterWrapper(run, params, retries, initialDelay) ==
  LoopHead([run EXCEPT !.params = params, !.retries = retries,
                       !.initialDelay = initialDelay,
                       !.currentDelay = Ms(initialDelay),
                       !.i = 0, !.caught = <<>>,
                       !.attempts = 0, !.waits = <<>>])

\* ShouldRetry as it would be if every error were retried.
ShouldRetryAnyError(run, e) == run.i < run.retries - 1

\* The condition of the catch block under which the attempt is retried.
ShouldRetry(run, e) == isRateLimit(e) /\ run.i < run.retries - 1

\* The catch block, entered with the error e: await delay(currentDelay), or
\* rethrow.
Catch(run, e) ==
  IF ShouldRetry(run, e)
  THEN Record([run EXCEPT !.pc = "backoff", !.caught = e,
                          !.waits = Append(@, run.currentDelay)],
              [ev |-> "wait", ms |-> run.currentDelay])
  ELSE Throw([run EXCEPT !.caught = e], e)

\* AfterBackoff as it would be if every attempt announced its stage again.
AfterBackoffWithNotice(run) ==
  LoopHead([run EXCEPT !.currentDelay = Backoff(@), !.i = @ + 1,
                       !.progress = Append(@, ProgressNotice(run.stage))])

\* After the backoff: currentDelay *= 1.5, i++, and the loop's head again.
AfterBackoff(run) ==
  LoopHead([run EXCEPT !.currentDelay = Backoff(@), !.i = @ + 1])

(***************************************************************************)
(* generateAnalysis                                                        *)
(***************************************************************************)

\* Stage n up to its first await: the progress notice, the request, and
\* generateWithRetry with its default retries and initialDelay.
BeginStage(run, n) ==
  LET params == StageParams(n, run.out, run.filePart)
  IN  EnterWrapper([run EXCEPT !.stage = n,
                               !.progress = Append(@, ProgressNotice(n)),
                               !.requests = Append(@, params)],
                   params, DefaultRetries, DefaultInitialDelay)

\* The object generateAnalysis returns.
Bundle(out) ==
  [summary |-> out.summary, critique |-> out.critique,
   experimentPlan |-> out.experimentPlan, pythonCode |-> out.pythonCode,
   experimentInterpretation |-> out.experimentInterpretation,
   validationReport |-> out.validationReport, slides |-> out.slides]

\* AfterResponse as it would be if the inter-stage delay were left out after
\* a call that had to be retried.
AfterResponseNoDelayAfterRetry(run, resp) ==
  LET n    == run.stage
      out  == (Field(n) :> StageOutput(n, resp)) @@ run.out
      next == [run EXCEPT !.out = out, !.resps = Append(@, resp)]
  IN  IF n < 7 /\ run.attempts > 1
      THEN BeginStage(next, n + 1)
      ELSE IF n < 7
      THEN [next EXCEPT !.pc = "delay", !.delays = Append(@, Ms(InterStageDelay))]
      ELSE [next EXCEPT !.pc = "returned", !.ret = Bundle(out)]

\* The call of stage run.stage has returned resp: the stage's value is
\* stored; then the inter-stage delay is awaited or, after stage 7, the
\* bundle returned.
AfterResponse(run, resp) ==
  LET n    == run.stage
      out  == (Field(n) :> StageOutput(n, resp)) @@ run.out
      next == [run EXCEPT !.out = out, !.resps = Append(@, resp)]
  IN  IF n < 7
      THEN [next EXCEPT !.pc = "delay", !.delays = Append(@, Ms(InterStageDelay))]
      ELSE [next EXCEPT !.pc = "returned", !.ret = Bundle(out)]

\* The call of a direct activation of generateWithRetry has returned resp.
WrapperReturns(run, resp) == [run EXCEPT !.pc = "returned", !.ret = resp]

(***************************************************************************)
(* The network and the timers                                              *)
(***************************************************************************)

Call(r, run) ==
  [run |-> r, stage |-> run.stage, attempt |-> run.i, params |-> run.params]

\* inflight after activation r has moved to the state run: the call it has
\* just issued, if it issued one, is in flight.
Issued(flight, r, run) ==
  IF run.pc = "calling" THEN Append(flight, Call(r, run)) ELSE flight

Without(flight, k) ==
  SubSeq(flight, 1, k - 1) \o SubSeq(flight, k + 1, Len(flight))

\* What is left of an activation: one started by the application is gone once
\* it has returned or thrown (startAnalysis has put how it ended in the state
\* of App); a harness keeps the locals of its activation as they were at the
\* end, to inspect them.
Retire(run) ==
  IF run.caller = "app" /\ run.pc \in {"returned", "failed"}
  THEN [caller |-> "app", fn |-> run.fn, pc |-> "done"]
  ELSE run

\* Settled as it would be if startAnalysis had no catch block: the rejection
\* of generateAnalysis leaves the state of App as it is.
SettledWithoutCatch(run) ==
  IF run.caller = "app" /\ run.pc = "returned"
  THEN /\ result' = run.ret
       /\ status' = "COMPLETE"
       /\ UNCHANGED <<currentStep, progressMsg, file, error, reads, selected>>
  ELSE UNCHANGED appVars

\* startAnalysis after its await: setResult and setStatus(COMPLETE), or the
\* catch block's setError and setStatus(ERROR).  A harness's activation
\* leaves the application's state alone.
Settled(run) ==
  IF run.caller = "app" /\ run.pc = "returned"
  THEN /\ result' = run.ret
       /\ status' = "COMPLETE"
       /\ UNCHANGED <<currentStep, progressMsg, file, error, reads, selected>>
  ELSE IF run.caller = "app" /\ run.pc = "failed"
  THEN /\ error' = "Analysis failed. Please try again or check your API key."
       /\ status' = "ERROR"
       /\ UNCHANGED <<currentStep, progressMsg, file, result, reads, selected>>
  ELSE UNCHANGED appVars

\* The k-th call in flight resolves with the response resp.
RespondOk(k, resp) ==
  /\ k \in 1..Len(inflight)
  /\ LET r   == inflight[k].run
         run == Record(runs[r], [ev |-> "ok", resp |-> resp])
         new == IF run.fn = "generateWithRetry" THEN WrapperReturns(run, resp)
                ELSE AfterResponse(run, resp)
     IN  /\ runs[r].pc = "calling"
         /\ runs' = [runs EXCEPT ![r] = Retire(new)]
         /\ inflight' = Without(inflight, k)
         /\ Settled(new)
  /\ UNCHANGED runVars

\* The k-th call in flight rejects with the error e.
RespondError(k, e) ==
  /\ k \in 1..Len(inflight)
  /\ LET r   == inflight[k].run
         run == Record(runs[r], [ev |-> "error", error |-> e])
         new == Catch(run, e)
     IN  /\ runs[r].pc = "calling"
         /\ runs' = [runs EXCEPT ![r] = Retire(new)]
         /\ inflight' = Without(inflight, k)
         /\ Settled(new)
  /\ UNCHANGED runVars

\* The timer of activation r's backoff fires.
BackoffElapsed(r) ==
  /\ r \in 1..Len(runs)
  /\ runs[r].pc = "backoff"
  /\ LET new == AfterBackoff(runs[r])
     IN  /\ runs' = [runs EXCEPT ![r] = Retire(new)]
         /\ inflight' = Issued(inflight, r, new)
         /\ Settled(new)
  /\ UNCHANGED runVars

\* The timer of activation r's inter-stage delay fires: the next stage begins.
DelayElapsed(r) ==
  /\ r \in 1..Len(runs)
  /\ runs[r].pc = "delay"
  /\ LET new == BeginStage(runs[r], runs[r].stage + 1)
     IN  /\ runs' = [runs EXCEPT ![r] = Retire(new)]
         /\ inflight' = Issued(inflight, r, new)
         /\ IF new.caller = "app" /\ new.pc # "failed"
            THEN /\ progressMsg' = ProgressNotice(new.stage)
                 /\ UNCHANGED <<status, currentStep, file, result, error, reads, selected>>
            ELSE IF new.caller = "app"
            THEN /\ progressMsg' = ProgressNotice(new.stage)
                 /\ error' = "Analysis failed. Please try again or check your API key."
                 /\ status' = "ERROR"
                 /\ UNCHANGED <<currentStep, file, result, reads, selected>>
            ELSE UNCHANGED appVars
  /\ UNCHANGED runVars

(***************************************************************************)
(* The application: App.tsx and the navigation of Layout                   *)
(***************************************************************************)

\* CanStartAnalysis as it would be if the upload view were shown while
\* PROCESSING too.
CanStartAnalysisWhileProcessing ==
  /\ currentStep = "upload"
  /\ file # NoFile

\* The "Analyze Paper" button can be clicked: renderContent shows the upload
\* view (not the spinner of PROCESSING), and the button is not disabled.
CanStartAnalysis ==
  /\ status # "PROCESSING"
  /\ currentStep = "upload"
  /\ file # NoFile

\* startAnalysis up to its await: generateAnalysis runs to its first call.
StartAnalysis ==
  /\ CanStartAnalysis
  /\ Len(runs) < MaxRuns
  /\ LET new == BeginStage(NewRun("app", "generateAnalysis",
                                  FilePart(file.base64, file.mimeType), FALSE), 1)
     IN  /\ runs' = Append(runs, Retire(new))
         /\ inflight' = Issued(inflight, Len(runs) + 1, new)
  /\ status' = "PROCESSING"
  /\ currentStep' = "summary"
  /\ progressMsg' = ProgressNotice(1)
  /\ UNCHANGED <<file, result, error, reads, selected>>
  /\ UNCHANGED runVars

\* A button of Layout's navigation: disabled while IDLE, but for 'upload'.
SetStep(s) ==
  /\ ~(status = "IDLE" /\ s # "upload")
  /\ currentStep' = s
  /\ UNCHANGED <<status, progressMsg, file, result, error, reads, selected, runs, inflight>>
  /\ UNCHANGED runVars

\* The FileData reader.onload stores for the selected file f: its name, the
\* base64 of its content (the data URL after the comma) and its type.
FileData(f) ==
  [name |-> f.name, base64 |-> f.base64, mimeType |-> f.type]

\* handleFileUpload: the file input of the upload view changes to f.  selected
\* is a history variable: the FileData of the PDF selected last, which the
\* program itself does not keep.
HandleFileUpload(f) ==
  /\ status # "PROCESSING"
  /\ currentStep = "upload"
  /\ IF f.type # "application/pdf"
     THEN /\ error' = "Please upload a valid PDF file."
          /\ UNCHANGED <<reads, selected>>
     ELSE /\ Len(reads) < MaxPendingReads
          /\ error' = NoError
          /\ reads' = Append(reads, f)
          /\ selected' = FileData(f)
  /\ UNCHANGED <<status, currentStep, progressMsg, file, result, runs, inflight>>
  /\ UNCHANGED runVars

\* reader.onload of the k-th pending read.
ReaderOnload(k) ==
  /\ k \in 1..Len(reads)
  /\ file' = FileData(reads[k])
  /\ reads' = Without(reads, k)
  /\ UNCHANGED <<status, currentStep, progressMsg, result, error, selected,
                 runs, inflight>>
  /\ UNCHANGED runVars

\* renderContent: the view App renders in the content area, named by what it
\* shows: the spinner while PROCESSING, else the upload view on the upload
\* step, else nothing without a result, else the view of the current step,
\* which presents a field of result.
renderContent ==
  IF status = "PROCESSING" THEN "spinner"
  ELSE IF currentStep = "upload" THEN "upload"
  ELSE IF result = NoResult THEN "null"
  ELSE currentStep

\* The heading of renderContent's validation case for a validation report.
ValidationHeading(validationReport) ==
  IF Includes(validationReport,
              <<"c","o","n","s","i","s","t","e","n","t"," ","a","n","d"," ","g","r",
                "o","u","n","d","e","d">>)
  THEN "Validation Passed"
  ELSE "Issues Detected"

(***************************************************************************)
(* runExperiment and the sandbox runtime                                   *)
(***************************************************************************)

\* The ceilings of the lines one execution prints, of the activations of
\* runExperiment suspended at a time, and of the runtimes created.
MaxLogLines == 2

MaxExecs == 2

MaxCreated == 2

\* logs.join('\n')
RECURSIVE Join(_)
Join(logs) ==
  IF logs = <<>> THEN <<>>
  ELSE IF Len(logs) = 1 THEN logs[1]
  ELSE logs[1] \o <<"\n">> \o Join(Tail(logs))

\* The place of the first occurrence of p in s (from 1), s including p.
IndexOf(s, p) ==
  CHOOSE k \in 1..Len(s) :
    /\ SubSeq(s, k, k + Len(p) - 1) = p
    /\ \A j \in 1..(k - 1) : SubSeq(s, j, j + Len(p) - 1) # p

\* s.split(p)[1], s including p: what lies between the first occurrence of p
\* and the next one (or the end).
SplitSecond(s, p) ==
  LET rest == Drop(s, IndexOf(s, p) + Len(p) - 1)
  IN  IF Includes(rest, p) THEN SubSeq(rest, 1, IndexOf(rest, p) - 1) ELSE rest

S_PythonError == <<"P","y","t","h","o","n","E","r","r","o","r",":">>

\* Error.prototype.toString
ErrorToString(err) ==
  IF err.message = <<>> THEN err.name ELSE err.name \o <<":"," ">> \o err.message

\* The text the catch block of runExperiment makes of the error it caught.
RunErrorText(err) ==
  LET msg == IF err.message # <<>> THEN err.message ELSE ErrorToString(err)
  IN  IF Includes(msg, S_PythonError) THEN Trim(SplitSecond(msg, S_PythonError))
      ELSE msg

\* new Error("Pyodide script not loaded. Please check internet connection.")
E_NoScript ==
  [name |-> <<"E","r","r","o","r">>,
   message |-> <<"P","y","o","d","i","d","e"," ","s","c","r","i","p","t"," ","n","o",
                 "t"," ","l","o","a","d","e","d","."," ","P","l","e","a","s","e"," ",
                 "c","h","e","c","k"," ","i","n","t","e","r","n","e","t"," ","c","o",
                 "n","n","e","c","t","i","o","n",".">>]

\* The activations of runExperiment that are suspended at an await.
Live(activations) == SelectSeq(activations, LAMBDA x : x.pc # "done")

\* NeedsLoad as it would be if the stored handle were not looked at.
NeedsLoadAlways(py) == TRUE

\* if (!py): there is no runtime yet.
NeedsLoad(py) == py = NoPyodide

\* CanRunExperiment as it would be if the button were never disabled.
CanRunExperimentAlways == renderContent = "code"

\* The "Run Experiment" button can be clicked: renderContent shows the code
\* view, and the button is not disabled.
CanRunExperiment ==
  /\ renderContent = "code"
  /\ runStatus \notin {"LOADING", "RUNNING"}

\* execs once activation e is over.
Over(e) == [execs EXCEPT ![e] = [pc |-> "done", code |-> execs[e].code]]

\* The catch block of runExperiment in activation e, entered with err.
Fails(e, err) ==
  /\ output' = IF Len(execs[e].logs) > 0 THEN Join(execs[e].logs) ELSE output
  /\ runError' = [text |-> RunErrorText(err)]
  /\ runStatus' = "ERROR"
  /\ execs' = Over(e)
  /\ UNCHANGED <<pyodide, created>>

\* runExperiment up to its first await; scriptLoaded: window.loadPyodide is
\* defined.
RunExperiment(scriptLoaded) ==
  /\ CanRunExperiment
  /\ IF result = NoResult \/ result.pythonCode = <<>>
     THEN UNCHANGED runVars
     ELSE LET py   == pyodide
              code == result.pythonCode
          IN  /\ Len(Live(execs)) < MaxExecs
              /\ runError' = IF NeedsLoad(py) /\ ~scriptLoaded
                             THEN [text |-> RunErrorText(E_NoScript)]
                             ELSE NoRunError
              /\ output' = <<>>
              /\ runStatus' = IF ~NeedsLoad(py) THEN "RUNNING"
                              ELSE IF scriptLoaded THEN "LOADING"
                              ELSE "ERROR"
              /\ execs' = Append(Live(execs),
                                 IF ~NeedsLoad(py)
                                 THEN [pc |-> "loadPackage", py |-> py,
                                       code |-> code, logs |-> <<>>,
                                       calls |-> <<"loadPackage">>]
                                 ELSE IF scriptLoaded
                                 THEN [pc |-> "loadPyodide", py |-> NoPyodide,
                                       code |-> code, logs |-> <<>>,
                                       calls |-> <<"loadPyodide">>]
                                 ELSE [pc |-> "done", code |-> code])
              /\ UNCHANGED <<pyodide, created>>
  /\ UNCHANGED <<appVars, runs, inflight>>

\* window.loadPyodide resolves with a new runtime: setPyodide, RUNNING, and
\* py.loadPackage is awaited.
LoadPyodideResolves(e) ==
  /\ e \in 1..Len(execs)
  /\ execs[e].pc = "loadPyodide"
  /\ created < MaxCreated
  /\ created' = created + 1
  /\ pyodide' = [id |-> created + 1]
  /\ runStatus' = "RUNNING"
  /\ execs' = [execs EXCEPT ![e].pc = "loadPackage", ![e].py = [id |-> created + 1],
                             ![e].calls = Append(@, "loadPackage")]
  /\ UNCHANGED <<output, runError, appVars, runs, inflight>>

LoadPyodideRejects(e, err) ==
  /\ e \in 1..Len(execs)
  /\ execs[e].pc = "loadPyodide"
  /\ Fails(e, err)
  /\ UNCHANGED <<appVars, runs, inflight>>

\* py.loadPackage resolves: the runtime's output streams are directed to the
\* logs of this activation, and py.runPythonAsync(result.pythonCode) is
\* awaited.
LoadPackageResolves(e) ==
  /\ e \in 1..Len(execs)
  /\ execs[e].pc = "loadPackage"
  /\ execs' = [execs EXCEPT ![e].pc = "runPythonAsync",
                             ![e].calls = Append(@, "runPythonAsync")]
  /\ UNCHANGED <<pyodide, runStatus, output, runError, created, appVars, runs, inflight>>

LoadPackageRejects(e, err) ==
  /\ e \in 1..Len(execs)
  /\ execs[e].pc = "loadPackage"
  /\ Fails(e, err)
  /\ UNCHANGED <<appVars, runs, inflight>>

\* The code that runs writes msg to its standard output.
Stdout(e, msg) ==
  /\ e \in 1..Len(execs)
  /\ execs[e].pc = "runPythonAsync"
  /\ Len(execs[e].logs) < MaxLogLines
  /\ execs' = [execs EXCEPT ![e].logs = Append(@, msg)]
  /\ UNCHANGED <<pyodide, runStatus, output, runError, created, appVars, runs, inflight>>

\* The code that runs writes msg to its standard error.
Stderr(e, msg) ==
  /\ e \in 1..Len(execs)
  /\ execs[e].pc = "runPythonAsync"
  /\ Len(execs[e].logs) < MaxLogLines
  /\ execs' = [execs EXCEPT
                 ![e].logs = Append(@, <<"[","s","t","d","e","r","r","]"," ">> \o msg)]
  /\ UNCHANGED <<pyodide, runStatus, output, runError, created, appVars, runs, inflight>>

\* py.runPythonAsync resolves: setOutput and SUCCESS.
RunResolves(e) ==
  /\ e \in 1..Len(execs)
  /\ execs[e].pc = "runPythonAsync"
  /\ output' = Join(execs[e].logs)
  /\ runStatus' = "SUCCESS"
  /\ execs' = Over(e)
  /\ UNCHANGED <<pyodide, runError, created, appVars, runs, inflight>>

RunRejects(e, err) ==
  /\ e \in 1..Len(execs)
  /\ execs[e].pc = "runPythonAsync"
  /\ Fails(e, err)
  /\ UNCHANGED <<appVars, runs, inflight>>

(***************************************************************************)
(* Harnesses: generateAnalysis and generateWithRetry called directly, on a *)
(* mocked remote call                                                      *)
(***************************************************************************)

CallGenerateAnalysis(f) ==
  /\ runs = <<>>
  /\ LET new == BeginStage(NewRun("harness", "generateAnalysis",
                                  FilePart(f.base64, f.type), FALSE), 1)
     IN  /\ runs' = <<new>>
         /\ inflight' = Issued(inflight, 1, new)
  /\ UNCHANGED appVars
  /\ UNCHANGED runVars

CallGenerateWithRetry(params, retries, initialDelay) ==
  /\ runs = <<>>
  /\ LET new == EnterWrapper(NewRun("harness", "generateWithRetry", <<>>, TRUE),
                             params, retries, initialDelay)
     IN  /\ runs' = <<new>>
         /\ inflight' = Issued(inflight, 1, new)
  /\ UNCHANGED appVars
  /\ UNCHANGED runVars

(***************************************************************************)
(* What the remote call answers                                            *)
(***************************************************************************)

\* A response without a text field (resp.text is undefined).
NoText == [finishReason |-> "SAFETY"]

T_Summary == <<"S","u","m">>

T_Critique == <<"1","."," ","W","e","a","k">>

T_Plan == <<"P","l","a","n">>

T_Interpretation == <<"I","t"," ","f","i","t","s">>

T_Report == <<"O","k">>

\* Stage-7 response texts: the sentence the prompt asks for when there is no
\* issue, and a report of an issue that shares its ending.
T_Sentinel ==
  <<"O","u","t","p","u","t","s"," ","a","r","e"," ","i","n","t","e","r","n","a","l",
    "l","y"," ","c","o","n","s","i","s","t","e","n","t"," ","a","n","d"," ","g","r",
    "o","u","n","d","e","d",".">>

T_Inconsistent ==
  <<"P","l","a","n"," ","i","s"," ","i","n","c","o","n","s","i","s","t","e","n","t",
    " ","a","n","d"," ","g","r","o","u","n","d","e","d"," ","i","n"," ","n","o","t",
    "h","i","n","g",".">>

\* Stage-4 response texts: fenced and bare code, a fence around nothing,
\* white space only, a fence inside a python fence, no text.
T_FencedCode ==
  <<BT,BT,BT,"p","y","t","h","o","n","\n","p","r","i","n","t","(","1",")","\n",BT,BT,BT>>

T_BareCode == <<"p","r","i","n","t","(","1",")">>

T_EmptyFence == <<BT,BT,BT,"p","y","t","h","o","n","\n",BT,BT,BT>>

T_Blank == <<" ","\n">>

T_TwoFences ==
  <<BT,BT,BT,"P","y","t","h","o","n"," ",BT,BT,BT,"\n","x"," ","\n",BT,BT,BT," ">>

\* A generic fence around code, and a python fence directly followed by a
\* generic one.
T_GenericFenced == <<BT,BT,BT,"\n","y"," ","=", " ","2","\n",BT,BT,BT,"\n">>

T_PythonThenGeneric ==
  <<BT,BT,BT,"p","y","t","h","o","n","\n",BT,BT,BT,"\n","z","\n",BT,BT,BT>>

CodeTexts ==
  {T_FencedCode, T_BareCode, T_EmptyFence, T_Blank, T_TwoFences, T_GenericFenced,
   T_PythonThenGeneric, <<>>}

\* Stage-5 response texts: arrays of slides bare and fenced, the empty array,
\* JSON that is no array, a truncated array, text that is no JSON, no text.
T_OneSlide ==
  <<"[","{","\"","t","i","t","l","e","\"",":","\"","A","\"",",","\"","b","u","l",
    "l","e","t","s","\"",":","[","\"","b","\"","]","}","]">>

T_FencedOneSlide ==
  <<BT,BT,BT,"j","s","o","n","\n","[","{","\"","t","i","t","l","e","\"",":","\"",
    "B","\"",",","\"","b","u","l","l","e","t","s","\"",":","[","]","}","]","\n",
    BT,BT,BT>>

T_EmptyArray == <<"[","]">>

T_FencedEmptyArray == <<BT,BT,BT,"j","s","o","n","\n","["," ","]","\n",BT,BT,BT>>

T_EmptyObject == <<"{","}">>

T_Null == <<"n","u","l","l">>

T_Truncated == <<"[","{","\"","t","i","t","l","e","\"",":","\"","A","\"">>

T_NotJson == <<"S","o","r","r","y">>

SlideTexts ==
  {T_OneSlide, T_FencedOneSlide, T_EmptyArray, T_FencedEmptyArray, T_EmptyObject,
   T_Null, T_Truncated, T_NotJson, <<>>}

\* The responses the mocked call gives a harness's stage n.
MockResponses(n) ==
  (IF n \in {2, 3, 6, 7} THEN {} ELSE {NoText}) \cup
  { [text |-> t] :
      t \in CASE n = 1 -> {T_Summary, <<>>}
              [] n = 2 -> {T_Critique, <<>>}
              [] n = 3 -> {T_Plan, <<>>}
              [] n = 4 -> CodeTexts
              [] n = 5 -> SlideTexts
              [] n = 6 -> {T_Interpretation, <<>>}
              [] n = 7 -> {T_Report, T_Sentinel, T_Inconsistent, <<>>}
              [] OTHER -> {T_Report, <<>>} }

\* The responses the remote call gives the application's stage n.
AppResponses(n) ==
  { [text |-> t] :
      t \in CASE n = 1 -> {T_Summary}
              [] n = 2 -> {T_Critique}
              [] n = 3 -> {T_Plan}
              [] n = 4 -> {T_BareCode}
              [] n = 5 -> {T_EmptyArray}
              [] n = 6 -> {T_Interpretation}
              [] n = 7 -> {T_Report} }

(***************************************************************************)
(* Specifications                                                          *)
(***************************************************************************)

\* The application.
Next ==
  \/ StartAnalysis
  \/ \E s \in AnalysisSteps : SetStep(s)
  \/ \E f \in SelectableFiles : HandleFileUpload(f)
  \/ \E k \in 1..Len(reads) : ReaderOnload(k)
  \/ \E k \in 1..Len(inflight) :
       \E resp \in AppResponses(inflight[k].stage) : RespondOk(k, resp)
  \/ \E k \in 1..Len(inflight) :
       \E e \in PipelineErrors : RespondError(k, e)
  \/ \E r \in 1..Len(runs) : BackoffElapsed(r)
  \/ \E r \in 1..Len(runs) : DelayElapsed(r)

Spec == Init /\ [][Next]_vars

\* A call in flight settles, with an error or with a response.
Settles ==
  \/ \E k \in 1..Len(inflight) :
       \E e \in PipelineErrors : RespondError(k, e)
  \/ \E k \in 1..Len(inflight) :
       \E resp \in AppResponses(inflight[k].stage) : RespondOk(k, resp)

\* The application with one document to select.
NextLive ==
  \/ StartAnalysis
  \/ \E s \in AnalysisSteps : SetStep(s)
  \/ \E f \in {g \in SelectableFiles : g.name # "b.pdf"} : HandleFileUpload(f)
  \/ \E k \in 1..Len(reads) : ReaderOnload(k)
  \/ Settles
  \/ \E r \in 1..Len(runs) : BackoffElapsed(r)
  \/ \E r \in 1..Len(runs) : DelayElapsed(r)

\* That application, every call in flight settling and every timer firing in
\* the end.
SpecLive ==
  /\ Init
  /\ [][NextLive]_vars
  /\ WF_vars(Settles)
  /\ WF_vars(\E r \in 1..Len(runs) : BackoffElapsed(r))
  /\ WF_vars(\E r \in 1..Len(runs) : DelayElapsed(r))

\* The errors the runtime fails with: loading it, loading the packages, and
\* running the code (a Python exception, its message after the name).
E_Load == [name |-> <<"E","r","r","o","r">>, message |-> <<>>]

E_Package == [name |-> <<"E","r","r","o","r">>, message |-> <<"n","o"," ","n","e","t">>]

E_Python ==
  [name |-> <<"P","y","t","h","o","n","E","r","r","o","r">>,
   message |-> <<"T","b","\n","P","y","t","h","o","n","E","r","r","o","r",":"," ",
                 "Z","e","r","o"," ","\n">>]

\* The responses the remote call gives the stages of an analysis whose code
\* is executed: three codes, one of them empty once cleaned.
RunResponses(n) ==
  { [text |-> t] :
      t \in CASE n = 1 -> {T_Summary}
              [] n = 2 -> {T_Critique}
              [] n = 3 -> {T_Plan}
              [] n = 4 -> {T_BareCode, T_PythonThenGeneric, T_EmptyFence}
              [] n = 5 -> {T_EmptyArray}
              [] n = 6 -> {T_Interpretation}
              [] n = 7 -> {T_Report} }

\* The application with its code view: one document to select, and calls
\* that fail with an error that is not retried.
NextRun ==
  \/ StartAnalysis
  \/ \E s \in AnalysisSteps : SetStep(s)
  \/ \E f \in {g \in SelectableFiles : g.name = "a.pdf"} : HandleFileUpload(f)
  \/ \E k \in 1..Len(reads) : ReaderOnload(k)
  \/ \E k \in 1..Len(inflight) :
       \E resp \in RunResponses(inflight[k].stage) : RespondOk(k, resp)
  \/ \E k \in 1..Len(inflight) :
       \E e \in PipelineErrors \ RateLimitErrors : RespondError(k, e)
  \/ \E r \in 1..Len(runs) : DelayElapsed(r)
  \/ \E scriptLoaded \in BOOLEAN : RunExperiment(scriptLoaded)
  \/ \E e \in 1..Len(execs) : LoadPyodideResolves(e)
  \/ \E e \in 1..Len(execs) : LoadPyodideRejects(e, E_Load)
  \/ \E e \in 1..Len(execs) : LoadPackageResolves(e)
  \/ \E e \in 1..Len(execs) : LoadPackageRejects(e, E_Package)
  \/ \E e \in 1..Len(execs) : Stdout(e, <<"1">>)
  \/ \E e \in 1..Len(execs) : Stderr(e, <<"w">>)
  \/ \E e \in 1..Len(execs) : RunResolves(e)
  \/ \E e \in 1..Len(execs) : RunRejects(e, E_Python)

SpecRun == Init /\ [][NextRun]_vars

\* generateAnalysis on a mocked remote call.
NextPipeline ==
  \/ \E f \in {g \in SelectableFiles : g.type = "application/pdf"} :
       CallGenerateAnalysis(f)
  \/ \E k \in 1..Len(inflight) :
       \E resp \in MockResponses(inflight[k].stage) : RespondOk(k, resp)
  \/ \E k \in 1..Len(inflight) :
       \E e \in PipelineErrors : RespondError(k, e)
  \/ \E r \in 1..Len(runs) : BackoffElapsed(r)
  \/ \E r \in 1..Len(runs) : DelayElapsed(r)

SpecPipeline == Init /\ [][NextPipeline]_vars

\* generateWithRetry on a mocked remote call, for the attempt ceilings
\* 0..MaxRetries and the initial delays of InitialDelays.
NextRetry ==
  \/ \E retries \in 0..MaxRetries, initialDelay \in InitialDelays :
       CallGenerateWithRetry([model |-> MODEL_NAME], retries, initialDelay)
  \/ \E k \in 1..Len(inflight) :
       \E resp \in MockResponses(0) : RespondOk(k, resp)
  \/ \E k \in 1..Len(inflight) :
       \E e \in RateLimitErrors \cup OtherErrors : RespondError(k, e)
  \/ \E r \in 1..Len(runs) : BackoffElapsed(r)

SpecRetry == Init /\ [][NextRetry]_vars

(***************************************************************************)
(* Properties of generateWithRetry, under SpecRetry                        *)
(***************************************************************************)

WrapperRuns == {r \in 1..Len(runs) : runs[r].fn = "generateWithRetry"}

\* The errors the mocked call of an activation has rejected with so far.
Rejections(run) ==
  {p \in 1..Len(run.trace) : run.trace[p].ev = "error"}

RECURSIVE Power(_, _)
Power(b, n) == IF n = 0 THEN 1 ELSE b * Power(b, n - 1)

\* C1 (as claimed): when every attempt has failed with a rate-limit-classified
\* error, generateWithRetry has made exactly `retries` attempts and has thrown
\* the error 'Failed to generate content after retries. The API quota may be
\* exhausted.'
C1_QuotaExhaustedAfterRetries ==
  \A r \in WrapperRuns :
    LET run == runs[r]
    IN  (/\ run.pc = "failed"
         /\ \A p \in Rejections(run) : run.trace[p].error \in RateLimitErrors)
        => /\ run.attempts = run.retries
           /\ run.thrown = QuotaError

\* C2: when the call fails N times with a rate-limit-classified error and
\* then succeeds (N < retries), generateWithRetry returns that response after
\* exactly N+1 attempts and N waits; the k-th wait follows the k-th failure,
\* precedes attempt k+1 and lasts initialDelay * 1.5^(k-1); nothing precedes
\* the first attempt.
C2_BackoffSchedule ==
  \A r \in WrapperRuns :
    LET run == runs[r]
        N   == Cardinality(Rejections(run))
        tr  == run.trace
    IN  run.pc = "returned" =>
          /\ N < run.retries
          /\ Len(tr) = 3 * N + 2
          /\ \A k \in 1..N :
               /\ tr[3 * k - 2].ev = "call"
               /\ tr[3 * k - 1].ev = "error"
               /\ tr[3 * k - 1].error \in RateLimitErrors
               /\ tr[3 * k].ev = "wait"
               /\ tr[3 * k].ms.num * Power(2, k - 1)
                    = run.initialDelay * Power(3, k - 1) * tr[3 * k].ms.den
          /\ tr[3 * N + 1].ev = "call"
          /\ tr[3 * N + 2].ev = "ok"
          /\ run.ret = tr[3 * N + 2].resp
          /\ run.attempts = N + 1
          /\ Len(run.waits) = N

\* A response returned after three rate-limited attempts and three waits.
C2_Witness ==
  \E r \in WrapperRuns :
    /\ runs[r].pc = "returned"
    /\ runs[r].attempts = 4
    /\ Len(runs[r].waits) = 3
    /\ runs[r].initialDelay = DefaultInitialDelay

\* C3: an error that is not rate-limit-classified is the last thing the
\* activation asks of the call or the timers, on whichever attempt it occurs:
\* it is rethrown as it is, no attempt and no wait follows.
C3_OtherErrorRethrown ==
  \A r \in WrapperRuns :
    LET run == runs[r]
    IN  \A p \in Rejections(run) :
          run.trace[p].error \in OtherErrors =>
            /\ p = Len(run.trace)
            /\ run.pc = "failed"
            /\ run.thrown = run.trace[p].error
            /\ \A k \in 1..Len(inflight) : inflight[k].run # r

\* An error that is not rate-limit-classified rethrown on the third attempt.
C3_Witness ==
  \E r \in WrapperRuns :
    /\ runs[r].pc = "failed"
    /\ runs[r].attempts = 3
    /\ runs[r].retries > 3
    /\ runs[r].thrown \in OtherErrors

(***************************************************************************)
(* Properties of generateAnalysis, under SpecPipeline                      *)
(***************************************************************************)

\* The activations of generateAnalysis whose locals exist.
PipelineRuns ==
  {r \in 1..Len(runs) : runs[r].fn = "generateAnalysis" /\ runs[r].pc # "done"}

Returned == {r \in PipelineRuns : runs[r].pc = "returned"}

\* The error e is fatal for the call of run: it is not rate-limit-classified,
\* or it ends the last attempt.
Fatal(run, e) ==
  \/ e \in OtherErrors
  \/ e \in RateLimitErrors /\ run.attempts = run.retries

\* In this step the call of activation r rejects (no response is stored, and
\* the activation moves on).
Rejects(r) ==
  /\ runs[r].pc = "calling"
  /\ runs'[r] # runs[r]
  /\ Len(runs'[r].resps) = Len(runs[r].resps)

\* A failed activation: it returned nothing, and asked for nothing beyond
\* the stage that failed.
Aborted(r) ==
  LET run == runs[r]
  IN  /\ run.ret = <<>>
      /\ Len(run.requests) = run.stage
      /\ Len(run.progress) = run.stage
      /\ Len(run.delays) = run.stage - 1
      /\ DOMAIN run.out = {Field(n) : n \in 1..(run.stage - 1)}
      /\ \A k \in 1..Len(inflight) : inflight[k].run # r

\* C4: when the wrapped call of a stage fails fatally, generateAnalysis
\* rejects with that error and no bundle; a rejected activation has issued no
\* call, delay or progress notice of a later stage, and never does anything
\* again.
C4_FatalFailureAborts ==
  /\ [](\A r \in PipelineRuns : runs[r].pc = "failed" => Aborted(r))
  /\ [][\A r \in PipelineRuns :
          /\ (Rejects(r) /\ Fatal(runs[r], runs'[r].caught))
               => /\ runs'[r].pc = "failed"
                  /\ runs'[r].thrown = runs'[r].caught
          /\ runs[r].pc = "failed"
               => /\ runs'[r] = runs[r]
                  /\ \A k \in 1..Len(inflight') : inflight'[k].run # r]_vars

\* Stage 3 failed by rate-limit errors through all its attempts.
C4_Witness ==
  \E r \in PipelineRuns :
    /\ runs[r].pc = "failed"
    /\ runs[r].stage = 3
    /\ runs[r].attempts = DefaultRetries
    /\ runs[r].thrown \in RateLimitErrors

(***************************************************************************)
(* Properties of the application, under Spec                               *)
(***************************************************************************)

LiveRuns == {r \in 1..Len(runs) : runs[r].pc # "done"}

\* C5: at most one remote call is in flight, and at most one pipeline is
\* running, which is so exactly while status is PROCESSING.  The running
\* pipeline has begun its stages in the order 1, 2, ..., each after the
\* response and the delay of the one before; its attempt i is in flight
\* while it awaits the call, and nothing is while it awaits a timer.
C5_OneCallInFlight ==
  /\ Len(inflight) <= 1
  /\ Cardinality(LiveRuns) <= 1
  /\ (status = "PROCESSING") <=> (LiveRuns # {})
  /\ LiveRuns = {} => inflight = <<>>
  /\ \A r \in LiveRuns :
       LET run == runs[r]
       IN  /\ run.stage \in Stages
           /\ run.pc \in {"calling", "backoff", "delay"}
           /\ Len(run.requests) = run.stage
           /\ Len(run.progress) = run.stage
           /\ \A n \in 1..run.stage :
                /\ run.progress[n].step = n
                /\ run.requests[n] = StageParams(n, run.out, run.filePart)
           /\ Len(run.resps) = IF run.pc = "delay" THEN run.stage ELSE run.stage - 1
           /\ Len(run.delays) = Len(run.resps)
           /\ run.pc = "calling" =>
                /\ Len(inflight) = 1
                /\ inflight[1] = Call(r, run)
                /\ run.attempts = run.i + 1
           /\ run.pc \in {"backoff", "delay"} => inflight = <<>>

\* A second analysis, started after the first was over, retrying stage 3.
C5_Witness ==
  /\ Len(runs) = 2
  /\ runs[1].pc = "done"
  /\ runs[2].pc = "calling"
  /\ runs[2].stage = 3
  /\ runs[2].i = 2
  /\ Len(inflight) = 1

(***************************************************************************)
(* Properties of the bundle, under SpecPipeline                            *)
(***************************************************************************)

\* The text of a response, empty when it has none.
TextOf(resp) == IF "text" \in DOMAIN resp THEN resp.text ELSE <<>>

IsNonEmptyList(v) == v.t = "array" /\ Len(v.v) >= 1

EmptyList == [t |-> "array", v |-> <<>>]

\* C6 (as claimed): the slides of every returned bundle are a list with at
\* least one entry.
C6_SlidesNeverEmpty ==
  \A r \in Returned : IsNonEmptyList(runs[r].ret.slides)

\* C6 (amended): the slides of a returned bundle are a list with at least one
\* entry exactly when the stage-5 text, its fences stripped, does not parse
\* (then they are the one 'Error' entry) or parses to an array that is not
\* empty (then they are that array).  For a missing or empty text and for an
\* empty array, fenced or not, they are the empty list; for JSON of another
\* kind they are no list.
C6_SlidesByResponse ==
  \A r \in Returned :
    LET text   == TextOf(runs[r].resps[5])
        slides == runs[r].ret.slides
        parsed == JSONParse(cleanJson(IF text = <<>> THEN T_EmptyArray ELSE text))
    IN  /\ IsNonEmptyList(slides)
             <=> (~parsed.ok \/ IsNonEmptyList(parsed.val))
        /\ text \in {<<>>, T_EmptyArray, T_FencedEmptyArray} => slides = EmptyList
        /\ text \in {T_Truncated, T_NotJson} => slides = ErrorSlides
        /\ text \in {T_OneSlide, T_FencedOneSlide} =>
             /\ slides.t = "array" /\ Len(slides.v) = 1
             /\ slides.v[1].t = "object"
             /\ slides.v[1].v[<<"t","i","t","l","e">>].v
                  = IF text = T_OneSlide THEN <<"A">> ELSE <<"B">>
        /\ text \in {T_EmptyObject, T_Null} => slides.t # "array"

\* A returned bundle whose slides are the empty list, from a fenced empty
\* array.
C6_Witness ==
  \E r \in Returned :
    /\ TextOf(runs[r].resps[5]) = T_FencedEmptyArray
    /\ runs[r].ret.slides = EmptyList
    /\ ~IsNonEmptyList(runs[r].ret.slides)

\* A request attaches the document: one of its parts is inline data.
AttachesFile(params) ==
  \E p \in 1..Len(params.contents.parts) :
    "inlineData" \in DOMAIN params.contents.parts[p]

\* C7 (as claimed): the requests of stages 1, 2, 5 and 7 attach the input
\* document, those of stages 3, 4 and 6 do not.
C7_DocumentIn1257 ==
  \A r \in PipelineRuns :
    \A n \in 1..Len(runs[r].requests) :
      AttachesFile(runs[r].requests[n]) <=> n \in {1, 2, 5, 7}

\* C7 (amended): the requests of stages 1, 2, 3, 5 and 7 attach the input
\* document (as their first part), those of stages 4 and 6 do not; the call
\* in flight carries the request of its stage.
C7_DocumentIn12357 ==
  /\ \A r \in PipelineRuns :
       \A n \in 1..Len(runs[r].requests) :
         LET parts == runs[r].requests[n].contents.parts
         IN  /\ AttachesFile(runs[r].requests[n]) <=> n \in {1, 2, 3, 5, 7}
             /\ n \in {1, 2, 3, 5, 7} =>
                  /\ Len(parts) = 2
                  /\ parts[1] = runs[r].filePart
                  /\ "text" \in DOMAIN parts[2]
             /\ n \in {4, 6} => Len(parts) = 1 /\ "text" \in DOMAIN parts[1]
  /\ \A k \in 1..Len(inflight) :
       inflight[k].params = runs[inflight[k].run].requests[inflight[k].stage]

\* A run that has returned, all seven requests made.
C7_Witness ==
  \E r \in Returned :
    /\ Len(runs[r].requests) = 7
    /\ AttachesFile(runs[r].requests[3])
    /\ ~AttachesFile(runs[r].requests[4])

\* The values interpolated into the prompt of a request.
Embedded(params) ==
  params.contents.parts[Len(params.contents.parts)].text.embedded

\* The value of stage m (1, 2 or 3) as its response gives it: the text, or
\* the stage's placeholder for a missing or empty text.
Given(run, m) ==
  IF TextOf(run.resps[m]) # <<>> THEN TextOf(run.resps[m]) ELSE Fallback(m)

\* C8: the prompt of stage 4 embeds the stage-3 value only, that of stage 5
\* the stage-1 and stage-3 values, that of stage 6 the stage-3 value only,
\* that of stage 7 the stage-1, stage-2 and stage-3 values, and those of
\* stages 1-3 nothing; the values are those the bundle holds (the placeholder
\* where the response had no text); and a value once stored never changes.
C8_EmbeddedOutputs ==
  /\ [](\A r \in PipelineRuns :
          LET run == runs[r]
          IN  /\ \A n \in 1..Len(run.requests) :
                   Embedded(run.requests[n]) =
                     CASE n \in {1, 2, 3} -> <<>>
                       [] n = 4 -> <<Given(run, 3)>>
                       [] n = 5 -> <<Given(run, 1), Given(run, 3)>>
                       [] n = 6 -> <<Given(run, 3)>>
                       [] n = 7 -> <<Given(run, 1), Given(run, 2), Given(run, 3)>>
              /\ \A m \in 1..3 :
                   m <= Len(run.resps) => run.out[Field(m)] = Given(run, m)
              /\ run.pc = "returned" =>
                   \A n \in Stages : run.ret[Field(n)] = run.out[Field(n)])
  /\ [][\A r \in PipelineRuns :
          \A f \in DOMAIN runs[r].out :
            /\ f \in DOMAIN runs'[r].out
            /\ runs'[r].out[f] = runs[r].out[f]]_vars

\* A returned run whose summary was the placeholder, embedded as such in
\* the prompts of stages 5 and 7.
C8_Witness ==
  \E r \in Returned :
    /\ TextOf(runs[r].resps[1]) = <<>>
    /\ TextOf(runs[r].resps[3]) = T_Plan
    /\ Embedded(runs[r].requests[5]) = <<Fallback(1), T_Plan>>
    /\ Embedded(runs[r].requests[7])[1] = Fallback(1)

TextFields ==
  {"summary", "critique", "experimentPlan", "pythonCode",
   "experimentInterpretation", "validationReport"}

\* C9 (as claimed): each of the six text fields of a returned bundle is a
\* non-empty string.
C9_TextFieldsNonEmpty ==
  \A r \in Returned : \A f \in TextFields : runs[r].ret[f] # <<>>

\* The stage-5 response of an activation does not parse as JSON.
SlidesUnparseable(run) ==
  /\ Len(run.resps) >= 5
  /\ ~JSONParse(cleanJson(IF TextOf(run.resps[5]) = <<>> THEN T_EmptyArray
                          ELSE TextOf(run.resps[5]))).ok

\* C10: when the stage-5 text does not parse, the slides are exactly the one
\* 'Error' entry and the pipeline goes on: stage 5 ends in its delay, only an
\* error of the call of stage 6 or 7 can still fail the run, and a run that
\* returns has made the requests of all seven stages.
C10_ParseFailureGoesOn ==
  \A r \in PipelineRuns :
    LET run == runs[r]
    IN  SlidesUnparseable(run) =>
          /\ run.out.slides = ErrorSlides
          /\ run.stage = 5 => run.pc = "delay"
          /\ run.pc = "failed" =>
               /\ run.stage \in {6, 7}
               /\ run.thrown = run.caught
               /\ run.thrown \in PipelineErrors
          /\ run.pc = "returned" =>
               /\ run.ret.slides = ErrorSlides
               /\ Len(run.requests) = 7
               /\ Len(run.resps) = 7

\* A bundle returned after a truncated slides text.
C10_Witness ==
  \E r \in Returned :
    /\ TextOf(runs[r].resps[5]) = T_Truncated
    /\ runs[r].ret.slides = ErrorSlides
    /\ runs[r].ret.validationReport = T_Report

(***************************************************************************)
(* What the application shows, under Spec                                  *)
(***************************************************************************)

\* The views that present a stage output of the stored bundle.
ResultViews == AnalysisSteps \ {"upload"}

\* C11 (as claimed): whenever status is ERROR, result is null and no view
\* presenting a stage output is rendered.
C11_NoResultOnError ==
  status = "ERROR" =>
    /\ result = NoResult
    /\ renderContent \notin ResultViews

(***************************************************************************)
(* Delays and progress notices of generateAnalysis, under SpecPipeline     *)
(***************************************************************************)

Min(a, b) == IF a < b THEN a ELSE b

\* C12: every inter-stage delay is of 12000 ms; one has been started for each
\* of the stages 1-6 whose response has been stored and for nothing else,
\* however many attempts and backoff waits the calls took; the activation
\* awaits it exactly between the response of a stage 1-6 and the next stage;
\* and a run that returns a bundle has awaited exactly six, none after
\* stage 7.
C12_SixDelays ==
  \A r \in PipelineRuns :
    LET run == runs[r]
    IN  /\ \A d \in 1..Len(run.delays) : run.delays[d] = [num |-> 12000, den |-> 1]
        /\ Len(run.delays) = Min(Len(run.resps), 6)
        /\ (run.pc = "delay") <=> (Len(run.resps) = run.stage /\ run.stage <= 6)
        /\ run.pc = "delay" => Len(run.delays) = run.stage
        /\ run.pc \in {"calling", "backoff"} => Len(run.delays) = run.stage - 1
        /\ run.pc = "returned" =>
             /\ run.stage = 7
             /\ Len(run.resps) = 7
             /\ Len(run.delays) = 6

\* A bundle returned after six delays, the call of stage 7 answered on its
\* third attempt.
C12_Witness ==
  \E r \in Returned :
    /\ Len(runs[r].delays) = 6
    /\ runs[r].attempts = 3
    /\ Len(runs[r].waits) = 2

\* C13: the notices an activation has emitted are those of 'Step 1/7' up to
\* the step of its current stage, each once and in this order.  A notice is
\* emitted only in the step that begins a stage: as generateAnalysis is
\* entered (stage 1) or as the delay of the stage before has elapsed, and in
\* that step the first attempt of the stage's call is issued; a step that
\* retries a call emits none.
C13_ProgressOncePerStage ==
  /\ [](\A r \in PipelineRuns :
          LET run == runs[r]
          IN  /\ run.stage \in Stages
              /\ Len(run.progress) = run.stage
              /\ \A n \in 1..run.stage :
                   /\ run.progress[n] = ProgressNotice(n)
                   /\ run.progress[n].step = n
                   /\ run.progress[n].of = 7)
  /\ [][/\ (runs = <<>> /\ runs' # <<>>) =>
             /\ runs'[1].progress = <<ProgressNotice(1)>>
             /\ runs'[1].attempts = 1
             /\ runs'[1].pc = "calling"
        /\ \A r \in PipelineRuns :
             /\ runs'[r].progress # runs[r].progress =>
                  /\ runs[r].pc = "delay"
                  /\ runs'[r].stage = runs[r].stage + 1
                  /\ runs'[r].progress
                       = Append(runs[r].progress, ProgressNotice(runs[r].stage + 1))
                  /\ runs'[r].pc = "calling"
                  /\ runs'[r].attempts = 1
                  /\ runs'[r].i = 0
             /\ runs[r].pc = "delay" /\ runs'[r] # runs[r] =>
                  runs'[r].progress # runs[r].progress
             /\ runs[r].pc \in {"calling", "backoff"} =>
                  runs'[r].progress = runs[r].progress]_vars

\* The call of stage 2 on its third attempt, two notices emitted.
C13_Witness ==
  \E r \in PipelineRuns :
    /\ runs[r].stage = 2
    /\ runs[r].pc = "calling"
    /\ runs[r].attempts = 3
    /\ runs[r].progress = <<ProgressNotice(1), ProgressNotice(2)>>

(***************************************************************************)
(* The classification of errors, under SpecRetry                           *)
(***************************************************************************)

\* The checks of the classification that accept the error e.
Checks(e) ==
  (IF "status" \in DOMAIN e /\ e.status = 429 THEN {"status"} ELSE {}) \cup
  (IF "code" \in DOMAIN e /\ e.code = 429 THEN {"code"} ELSE {}) \cup
  (IF "message" \in DOMAIN e /\ Includes(e.message, <<"4","2","9">>)
   THEN {"message 429"} ELSE {}) \cup
  (IF "message" \in DOMAIN e /\ Includes(e.message, S_RESOURCE_EXHAUSTED)
   THEN {"message RESOURCE_EXHAUSTED"} ELSE {})

\* The number of the attempt that the p-th event of a trace belongs to.
AttemptOf(run, p) == Cardinality({q \in 1..p : run.trace[q].ev = "call"})

\* The p-th event of the trace is followed by a backoff wait.
Retried(run, p) == p < Len(run.trace) /\ run.trace[p + 1].ev = "wait"

\* C15: a failed attempt is followed by a backoff wait (and so by another
\* attempt) exactly when at least one of the four checks accepts its error
\* and it was not the last attempt allowed; an error accepted by a single
\* check is treated like one accepted by all; an error accepted by none, or
\* any error of the last attempt, is rethrown as it is with nothing after it.
C15_RateLimitClassification ==
  \A r \in WrapperRuns :
    LET run == runs[r]
    IN  \A p \in Rejections(run) :
          LET e == run.trace[p].error
          IN  /\ Retried(run, p)
                   <=> (Checks(e) # {} /\ AttemptOf(run, p) < run.retries)
              /\ ~Retried(run, p) =>
                   /\ p = Len(run.trace)
                   /\ run.pc = "failed"
                   /\ run.thrown = e
              /\ Retried(run, p) =>
                   /\ AttemptOf(run, p) = Cardinality({q \in 1..p : q \in Rejections(run)})
                   /\ run.pc \in {"backoff", "calling", "returned", "failed"}
                   /\ p + 1 = Len(run.trace) => run.pc = "backoff"

\* Errors accepted by the message check for '429' alone, and by the message
\* check for 'RESOURCE_EXHAUSTED' alone, each followed by a wait; then an
\* error accepted by no check, rethrown.
C15_Witness ==
  \E r \in WrapperRuns :
    LET run == runs[r]
    IN  /\ Len(run.trace) = 8
        /\ Checks(run.trace[2].error) = {"message 429"}
        /\ Retried(run, 2)
        /\ Checks(run.trace[5].error) = {"message RESOURCE_EXHAUSTED"}
        /\ Retried(run, 5)
        /\ run.trace[8].ev = "error"
        /\ Checks(run.trace[8].error) = {}
        /\ "message" \in DOMAIN run.trace[8].error
        /\ run.pc = "failed"

(***************************************************************************)
(* cleanCode as generateAnalysis applies it at stage 4, under SpecPipeline *)
(***************************************************************************)

\* The text cleanCode is given at stage 4: the response's, or the placeholder.
CodeGiven(run) ==
  IF TextOf(run.resps[4]) # <<>> THEN TextOf(run.resps[4]) ELSE Fallback(4)

\* The activations that have stored their stage-4 value.
Coded == {r \in PipelineRuns : Len(runs[r].resps) >= 4}

PythonTag == <<"p","y","t","h","o","n">>

\* text is a python fence, a body without a fence, and a closing fence.
IsPythonFenced(text) ==
  /\ Len(text) >= 12
  /\ SubSeq(text, 1, 9) = Fence \o PythonTag
  /\ SubSeq(text, Len(text) - 2, Len(text)) = Fence
  /\ ~Includes(SubSeq(text, 10, Len(text) - 3), Fence)

\* C18 (as claimed): the stage-4 value is the text with exactly one leading
\* fence removed (the python-tagged one if the text starts with one, otherwise
\* a generic one), one trailing fence removed, and trimmed.
C18_OneLeadingFence ==
  \A r \in Coded :
    runs[r].out.pythonCode = cleanCodeOneLeadingFence(CodeGiven(runs[r]))

\* C18 (amended): the stage-4 value is the text with a leading python-tagged
\* fence (in any letter case, with the white space after it) removed, then a
\* leading generic fence removed from what is left, then one trailing fence
\* removed, and trimmed: a python fence directly followed by a generic fence
\* lose both.  For a python fence, a fence-free body and a closing fence it is
\* the trimmed body, free of backticks.
C18_LeadingFences ==
  \A r \in Coded :
    LET text == CodeGiven(runs[r])
        code == runs[r].out.pythonCode
        one  == StripLeadingFence(text, PythonTag)
        two  == StripLeadingFence(one, <<>>)
    IN  /\ code = Trim(StripTrailingFence(two))
        /\ IsPythonFenced(text) =>
             /\ code = Trim(SubSeq(text, 10, Len(text) - 3))
             /\ \A k \in 1..Len(code) : code[k] # BT
        /\ text = T_FencedCode => code = <<"p","r","i","n","t","(","1",")">>
        /\ text = T_GenericFenced => code = <<"y"," ","="," ","2">>
        /\ text = T_PythonThenGeneric => code = <<"z">>
        /\ text = T_TwoFences => code = <<"x">>
        /\ text = T_BareCode => code = T_BareCode
        /\ text = Fallback(4) => code = Fallback(4)

\* A python fence directly followed by a generic fence: both are gone.
C18_Witness ==
  \E r \in Coded :
    /\ TextOf(runs[r].resps[4]) = T_PythonThenGeneric
    /\ runs[r].out.pythonCode = <<"z">>
    /\ cleanCodeOneLeadingFence(T_PythonThenGeneric) = <<BT,BT,BT,"\n","z">>

(***************************************************************************)
(* The validation view of a returned bundle, under SpecPipeline            *)
(***************************************************************************)

SentinelPhrase ==
  <<"i","n","t","e","r","n","a","l","l","y"," ","c","o","n","s","i","s","t","e","n",
    "t"," ","a","n","d"," ","g","r","o","u","n","d","e","d">>

\* C17 (as claimed): for the validation report of every returned bundle, the
\* validation view is headed 'Validation Passed' exactly when the report
\* contains 'internally consistent and grounded', and 'Issues Detected' for
\* every other report.
C17_PassedIffSentinel ==
  \A r \in Returned :
    LET report == runs[r].ret.validationReport
    IN  /\ ValidationHeading(report) = "Validation Passed"
             <=> Includes(report, SentinelPhrase)
        /\ ~Includes(report, SentinelPhrase)
             => ValidationHeading(report) = "Issues Detected"

(***************************************************************************)
(* Termination of the pipeline, under SpecLive                             *)
(***************************************************************************)

\* C14: whenever status is PROCESSING it later is COMPLETE or ERROR; status
\* leaves PROCESSING only for COMPLETE, with the bundle of the pipeline that
\* ran stored in result, or for ERROR, and never is IDLE again once it has
\* left IDLE; the pipeline under way is in one of seven stages and on at most
\* the tenth attempt of that stage's call, which makes at most 7 * 10
\* attempts.
C14_PipelineFinishes ==
  /\ (status = "PROCESSING") ~> (status \in {"COMPLETE", "ERROR"})
  /\ [](\A r \in LiveRuns :
          /\ runs[r].stage \in 1..7
          /\ runs[r].attempts \in 1..10
          /\ runs[r].i = runs[r].attempts - 1
          /\ (runs[r].stage - 1) * 10 + runs[r].attempts <= 7 * 10)
  /\ [][/\ status # "IDLE" => status' # "IDLE"
        /\ (status = "PROCESSING" /\ status' # "PROCESSING") =>
             /\ status' \in {"COMPLETE", "ERROR"}
             /\ \E r \in LiveRuns :
                  /\ runs'[r].pc = "done"
                  /\ status' = "COMPLETE" =>
                       /\ runs[r].stage = 7
                       /\ result' # NoResult
                       /\ \A n \in 1..6 :
                            result'[Field(n)] = runs[r].out[Field(n)]
                  /\ status' = "ERROR" => result' = result
        /\ (status # "PROCESSING" /\ status' # status) =>
             status' = "PROCESSING"]_vars

\* A second pipeline has finished with an error after the first finished
\* with a bundle.
C14_Witness ==
  /\ Len(runs) = 2
  /\ runs[1].pc = "done"
  /\ runs[2].pc = "done"
  /\ status = "ERROR"
  /\ result # NoResult
  /\ result.validationReport = T_Report

(***************************************************************************)
(* Properties of the code execution, under SpecRun                         *)
(***************************************************************************)

LiveExecs == {e \in 1..Len(execs) : execs[e].pc # "done"}

\* C16: at most one runtime is ever created.  Once created its handle is the
\* stored one and stays so (the stored handle is null exactly while none has
\* been created); an activation awaits window.loadPyodide only while none has
\* been created; and an activation that found the handle stored has not
\* called window.loadPyodide and uses that handle.
C16_HandleCreatedOnce ==
  /\ created <= 1
  /\ (pyodide = NoPyodide) <=> (created = 0)
  /\ pyodide # NoPyodide => pyodide = [id |-> 1]
  /\ \A e \in LiveExecs :
       /\ execs[e].pc = "loadPyodide" => created = 0
       /\ execs[e].pc \in {"loadPackage", "runPythonAsync"} =>
            /\ execs[e].py = pyodide
            /\ execs[e].py = [id |-> 1]
       /\ Len(SelectSeq(execs[e].calls, LAMBDA c : c = "loadPyodide")) <= 1

\* An execution that found the handle stored and runs its code on it, after
\* an earlier execution that had the runtime created has ended.
C16_Witness ==
  /\ created = 1
  /\ \E e \in LiveExecs :
       /\ execs[e].calls = <<"loadPackage", "runPythonAsync">>
       /\ execs[e].py = pyodide
       /\ Len(execs[e].logs) = 1

\* In this step an activation of runExperiment begins: one more is suspended
\* at its first await, or, none being suspended before or after, the
\* execution state has changed (the activation ended before any await).
Begins ==
  /\ Len(execs') > 0
  /\ \/ /\ Len(Live(execs')) > Len(Live(execs))
        /\ execs'[Len(execs')].pc \in {"loadPyodide", "loadPackage"}
        /\ execs'[Len(execs')].logs = <<>>
        /\ Len(execs'[Len(execs')].calls) = 1
     \/ /\ LiveExecs = {}
        /\ Live(execs') = <<>>
        /\ runVars' # runVars
        /\ execs'[Len(execs')].pc = "done"

\* In this step the activation e of runExperiment ends.
Ends(e) ==
  /\ e \in 1..Len(execs')
  /\ execs'[e].pc = "done"

\* C19: at most one activation of runExperiment is under way, which is so
\* exactly while runStatus is LOADING or RUNNING.  One begins only from the
\* code view with runStatus neither LOADING nor RUNNING and a pythonCode that
\* is not empty, and clears the output and the run error; with an empty
\* pythonCode a click changes nothing.  One ends either with SUCCESS, no run
\* error and the lines it captured as output, or with ERROR, a run error
\* and the lines it captured as output.
C19_OneExecution ==
  /\ [](/\ Cardinality(LiveExecs) <= 1
        /\ (runStatus \in {"LOADING", "RUNNING"}) <=> (LiveExecs # {})
        /\ \A e \in LiveExecs :
             /\ execs[e].code # <<>>
             /\ (runStatus = "LOADING") <=> (execs[e].pc = "loadPyodide")
             /\ execs[e].pc # "runPythonAsync" => execs[e].logs = <<>>
        /\ runStatus = "SUCCESS" => runError = NoRunError
        /\ runStatus = "ERROR" => runError # NoRunError
        /\ runStatus = "IDLE" => output = <<>> /\ runError = NoRunError /\ execs = <<>>)
  /\ [][/\ Begins =>
             /\ runStatus \notin {"LOADING", "RUNNING"}
             /\ renderContent = "code"
             /\ result.pythonCode # <<>>
             /\ execs'[Len(execs')].code = result.pythonCode
             /\ output' = <<>>
             /\ execs'[Len(execs')].pc # "done" => runError' = NoRunError
        /\ (LiveExecs = {} /\ runVars' # runVars) => Begins
        /\ \A e \in LiveExecs :
             Ends(e) =>
               \/ /\ runStatus' = "SUCCESS"
                  /\ runError' = NoRunError
                  /\ execs[e].pc = "runPythonAsync"
                  /\ output' = Join(execs[e].logs)
               \/ /\ runStatus' = "ERROR"
                  /\ runError' # NoRunError
                  /\ output' = Join(execs[e].logs)]_vars

\* An execution has ended with ERROR, the Python exception's text as run
\* error, after its code wrote a line to the standard error.
C19_Witness ==
  /\ runStatus = "ERROR"
  /\ runError = [text |-> <<"Z","e","r","o">>]
  /\ output = <<"[","s","t","d","e","r","r","]"," ","w">>
  /\ created = 1
  /\ LiveExecs = {}

\* C20 (as claimed): in the code view, a run status other than IDLE (and the
\* run error and output shown with it) is that of an execution of the
\* pythonCode of the result displayed.
C20_RunStateOfShownCode ==
  (renderContent = "code" /\ runStatus # "IDLE") =>
    \E e \in 1..Len(execs) : execs[e].code = result.pythonCode

\* C21: once every pending file read has completed, the stored file is the
\* PDF selected last (none when no PDF was ever selected): a read of an
\* earlier selection that finishes later does not replace a later selection.
C21_LatestSelectionStored ==
  reads = <<>> => file = selected

=============================================================================
